---------------------------- MODULE Spec2Model ----------------------------
(***************************************************************************)
(* Model of package auth of go-api-basic (domain/auth/auth.go):            *)
(*   - CasbinAuthorizer.Authorize, the authorization decision;             *)
(*   - the identity context carrier: CtxWithAccessToken, CtxWithRealm,     *)
(*     AccessTokenFromCtx/Request, RealmFromCtx/Request on top of Go's     *)
(*     context.WithValue / Context.Value.                                  *)
(* Go strings that are inspected character by character (object paths)     *)
(* are sequences of one-character strings; strings only compared for       *)
(* equality (emails, verbs, tokens, realms) are TLA+ strings.              *)
(***************************************************************************)
EXTENDS Integers, Sequences, FiniteSets

VARIABLES
    policy,     \* the policy set loaded in a.Enforcer: allowed <<sub, obj, act>>
    call,       \* arguments of the last Authorize call
    ret,        \* error returned by the last Authorize call (Nil for nil)
    enforced,   \* Enforcer.Enforce invocations made during the last call
    logged,     \* zerolog entries emitted during the last call
    ctxs,       \* the context values created so far; ctxs[1] is context.Background()
    reqs,       \* per request, the *http.Request value (its context)
    hist,       \* per context, the attach operations that built it (history)
    res         \* the retrieval just made: operation, argument and returned values

vars == <<policy, call, ret, enforced, logged, ctxs, reqs, hist, res>>

authVars == <<policy, call, ret, enforced, logged>>
ctxVars == <<ctxs, reqs, hist, res>>

----------------------------------------------------------------------------
(* Bounds *)

\* longest suffix appended to a base path when enumerating object paths
MaxSuffixLen == 2

\* number of context values (Background included) a behaviour may create
MaxCtxs == 4

----------------------------------------------------------------------------
(* Go strings *)

\* strings.HasPrefix(s, prefix): len(s) >= len(prefix) && s[:len(prefix)] == prefix
HasPrefix(s, prefix) ==
    /\ Len(s) >= Len(prefix)
    /\ SubSeq(s, 1, Len(prefix)) = prefix

\* all sequences over S of length at most n
RECURSIVE SeqsUpTo(_, _)
SeqsUpTo(S, n) ==
    IF n = 0 THEN {<<>>}
    ELSE LET shorter == SeqsUpTo(S, n - 1)
         IN  shorter \cup {Append(s, c) : s \in shorter, c \in S}

----------------------------------------------------------------------------
(* Authorize: constants *)

moviesPath == <<"/","a","p","i","/","v","1","/","m","o","v","i","e","s">>
loggerPath == <<"/","a","p","i","/","v","1","/","l","o","g","g","e","r">>

MethodGet == "GET"

\* the nil error
Nil == [kind |-> "nil", msg |-> <<>>]

\* fmt.Sprintf("user %s does not have %s permission for %s", email, act, obj)
PermissionMsg(email, act, obj) ==
    <<"user ", email, " does not have ", act, " permission for ", obj>>

\* errs.NewUnauthorizedError(err): an error of kind Unauthorized wrapping err
NewUnauthorizedError(msg) == [kind |-> "Unauthorized", msg |-> msg]

\* a.Enforcer.Enforce(sub, obj, act) against the loaded policy set
Enforce(pol, sub, obj, act) == <<sub, obj, act>> \in pol

\* lgr.Debug()/lgr.Info() ... Str("sub").Str("obj").Str("act").Msgf(...)
LogEntry(level, word, sub, obj, act) ==
    [level |-> level, sub |-> sub, obj |-> obj, act |-> act,
     msg |-> <<word, " (sub: ", sub, ", obj: ", obj, ", act: ", act, ")">>]

----------------------------------------------------------------------------
(* Authorize: mutants used to show that the properties depend on the code *)

\* falls through to the policy store with the raw path when no prefix matches
Authorize_FallThrough(pol, sub, obj, act) ==
    LET cobj == IF HasPrefix(obj, moviesPath) THEN moviesPath
                ELSE IF HasPrefix(obj, loggerPath) THEN loggerPath
                ELSE obj
        cact == IF act = MethodGet THEN "read" ELSE "write"
        authorized == Enforce(pol, sub.Email, cobj, cact)
    IN  [enforced |-> <<[query |-> <<sub.Email, cobj, cact>>, result |-> authorized]>>,
         logged |-> IF authorized
                    THEN <<LogEntry("debug", "Authorized", sub.Email, cobj, cact)>>
                    ELSE <<LogEntry("info", "Unauthorized", sub.Email, cobj, cact)>>,
         err |-> IF authorized THEN Nil
                 ELSE NewUnauthorizedError(PermissionMsg(sub.Email, cact, cobj))]

\* returns the error on allow and nil on deny
Authorize_Inverted(pol, sub, obj, act) ==
    IF ~HasPrefix(obj, moviesPath) /\ ~HasPrefix(obj, loggerPath)
    THEN [enforced |-> <<>>, logged |-> <<>>,
          err |-> NewUnauthorizedError(PermissionMsg(sub.Email, act, obj))]
    ELSE
    LET cobj == IF HasPrefix(obj, moviesPath) THEN moviesPath ELSE loggerPath
        cact == IF act = MethodGet THEN "read" ELSE "write"
        authorized == Enforce(pol, sub.Email, cobj, cact)
    IN  [enforced |-> <<[query |-> <<sub.Email, cobj, cact>>, result |-> authorized]>>,
         logged |-> IF authorized
                    THEN <<LogEntry("debug", "Authorized", sub.Email, cobj, cact)>>
                    ELSE <<LogEntry("info", "Unauthorized", sub.Email, cobj, cact)>>,
         err |-> IF ~authorized THEN Nil
                 ELSE NewUnauthorizedError(PermissionMsg(sub.Email, cact, cobj))]

\* queries the policy store with the full path and the raw verb
Authorize_Raw(pol, sub, obj, act) ==
    IF ~HasPrefix(obj, moviesPath) /\ ~HasPrefix(obj, loggerPath)
    THEN [enforced |-> <<>>, logged |-> <<>>,
          err |-> NewUnauthorizedError(PermissionMsg(sub.Email, act, obj))]
    ELSE
    LET authorized == Enforce(pol, sub.Email, obj, act)
    IN  [enforced |-> <<[query |-> <<sub.Email, obj, act>>, result |-> authorized]>>,
         logged |-> IF authorized
                    THEN <<LogEntry("debug", "Authorized", sub.Email, obj, act)>>
                    ELSE <<LogEntry("info", "Unauthorized", sub.Email, obj, act)>>,
         err |-> IF authorized THEN Nil
                 ELSE NewUnauthorizedError(PermissionMsg(sub.Email, act, obj))]

\* builds the deny message from the arguments as received, not as canonicalized
Authorize_RawMsg(pol, sub, obj, act) ==
    IF ~HasPrefix(obj, moviesPath) /\ ~HasPrefix(obj, loggerPath)
    THEN [enforced |-> <<>>, logged |-> <<>>,
          err |-> NewUnauthorizedError(PermissionMsg(sub.Email, act, obj))]
    ELSE
    LET cobj == IF HasPrefix(obj, moviesPath) THEN moviesPath ELSE loggerPath
        cact == IF act = MethodGet THEN "read" ELSE "write"
        authorized == Enforce(pol, sub.Email, cobj, cact)
    IN  [enforced |-> <<[query |-> <<sub.Email, cobj, cact>>, result |-> authorized]>>,
         logged |-> IF authorized
                    THEN <<LogEntry("debug", "Authorized", sub.Email, cobj, cact)>>
                    ELSE <<LogEntry("info", "Unauthorized", sub.Email, cobj, cact)>>,
         err |-> IF authorized THEN Nil
                 ELSE NewUnauthorizedError(PermissionMsg(sub.Email, act, obj))]

----------------------------------------------------------------------------
(* Authorize *)

\* func (a CasbinAuthorizer) Authorize(lgr, sub, obj, act) error
\* The result records the returned error together with the Enforce calls and
\* the log entries the call made.
Authorize(pol, sub, obj, act) ==
    IF ~HasPrefix(obj, moviesPath) /\ ~HasPrefix(obj, loggerPath)
    THEN \* no known prefix: return at once, nothing enforced, nothing logged
         [enforced |-> <<>>, logged |-> <<>>,
          err |-> NewUnauthorizedError(PermissionMsg(sub.Email, act, obj))]
    ELSE
    LET cobj == IF HasPrefix(obj, moviesPath) THEN moviesPath ELSE loggerPath
        cact == IF act = MethodGet THEN "read" ELSE "write"
        authorized == Enforce(pol, sub.Email, cobj, cact)
    IN  [enforced |-> <<[query |-> <<sub.Email, cobj, cact>>, result |-> authorized]>>,
         logged |-> IF authorized
                    THEN <<LogEntry("debug", "Authorized", sub.Email, cobj, cact)>>
                    ELSE <<LogEntry("info", "Unauthorized", sub.Email, cobj, cact)>>,
         err |-> IF authorized THEN Nil
                 ELSE NewUnauthorizedError(PermissionMsg(sub.Email, cact, cobj))]


----------------------------------------------------------------------------
(* Authorize: inputs *)

\* user.User values passed as sub (only Email is read)
Users == {[Email |-> "otto.maddox711@gmail.com"],
          [Email |-> "alice@example.com"],
          [Email |-> "badactor@gmail.com"]}

\* HTTP verbs passed as act
Verbs == {"GET", "POST", "PUT", "DELETE", "HEAD"}

\* characters appended to the base paths
SuffixChars == {"/", "1", "s"}

\* "/api/v1/movie": moviesPath short of its last character
nearMovies == SubSeq(moviesPath, 1, Len(moviesPath) - 1)

BasePaths == {moviesPath, loggerPath, nearMovies,
              <<"/","a","p","i","/","v","1","/">>,
              <<"/","a","p","i","/","v","1","/","u","n","k","n","o","w","n">>,
              <<>>}

\* object paths passed as obj
Paths == {b \o sfx : b \in BasePaths, sfx \in SeqsUpTo(SuffixChars, MaxSuffixLen)}

\* policy sets the enforcer may have loaded (role-based: admin writes and
\* reads, user only reads)
PolicyRBAC ==
    {<<"otto.maddox711@gmail.com", p, a>> : p \in {moviesPath, loggerPath},
                                             a \in {"read", "write"}}
    \cup {<<"alice@example.com", moviesPath, "read">>}

PolicyEmpty == {}

PolicyReadAll ==
    {<<u.Email, p, "read">> : u \in Users, p \in {moviesPath, loggerPath}}

Policies == {PolicyRBAC, PolicyEmpty, PolicyReadAll}

NoCall == [made |-> FALSE, sub |-> [Email |-> ""], obj |-> <<>>, act |-> ""]

----------------------------------------------------------------------------
(* Identity context carrier *)

DefaultRealm == "go-api-basic"
BearerTokenType == "Bearer"
contextKeyRealm == "realm"
contextKeyAccessToken == "access-token"

\* the nil interface value
NilValue == [type |-> "nil"]

\* AccessToken{Token, TokenType}
NewAccessToken(token, tokenType) == [Token |-> token, TokenType |-> tokenType]

\* the zero AccessToken
ZeroAccessToken == NewAccessToken("", "")

\* context.Background(): the empty context, parent of every chain
Background == [parent |-> 0, key |-> "", val |-> NilValue]

\* a nil *http.Request, and a request carrying context c
NilRequest == [isNil |-> TRUE, ctx |-> 0]
Request(c) == [isNil |-> FALSE, ctx |-> c]

\* overwrites the value held by context c itself (when it is a value context)
\* besides returning the new context
WithValue_InPlace(h, c, key, val) ==
    Append(IF h[c].parent = 0 THEN h
           ELSE [h EXCEPT ![c] = [parent |-> h[c].parent, key |-> key, val |-> val]],
           [parent |-> c, key |-> key, val |-> val])

\* context.WithValue(parent, key, val): a new context pointing at its parent;
\* h is the collection of contexts, the new context is the last of the result
WithValue(h, c, key, val) ==
    Append(h, [parent |-> c, key |-> key, val |-> val])

\* returns the value attached first (nearest the root) instead of last
RECURSIVE Value_Oldest(_, _, _)
Value_Oldest(h, c, key) ==
    IF h[c].parent = 0 THEN NilValue
    ELSE LET up == Value_Oldest(h, h[c].parent, key)
         IN  IF up # NilValue THEN up
             ELSE IF h[c].key = key THEN h[c].val ELSE NilValue

\* ctx.Value(key): the value of the nearest context in the chain holding key
RECURSIVE Value(_, _, _)
Value(h, c, key) ==
    IF h[c].parent = 0 THEN NilValue
    ELSE IF h[c].key = key THEN h[c].val
    ELSE Value(h, h[c].parent, key)

\* func CtxWithRealm(ctx, realm) context.Context
CtxWithRealm(h, c, realm) ==
    WithValue(h, c, contextKeyRealm, [type |-> "WWWAuthenticateRealm", realm |-> realm])

\* stores the token into the given context as well as into the new one
CtxWithAccessToken_InPlace(h, c, at) ==
    WithValue_InPlace(h, c, contextKeyAccessToken, [type |-> "AccessToken", at |-> at])

\* func CtxWithAccessToken(ctx, at) context.Context
CtxWithAccessToken(h, c, at) ==
    WithValue(h, c, contextKeyAccessToken, [type |-> "AccessToken", at |-> at])

\* substitutes DefaultRealm when no realm is attached
RealmFromCtx_Default(h, c) ==
    LET v == Value(h, c, contextKeyRealm)
    IN  IF v.type = "WWWAuthenticateRealm"
        THEN [realm |-> v.realm, ok |-> TRUE]
        ELSE [realm |-> DefaultRealm, ok |-> TRUE]

\* func RealmFromCtx(ctx) (realm WWWAuthenticateRealm, ok bool)
RealmFromCtx(h, c) ==
    LET v == Value(h, c, contextKeyRealm)
    IN  IF v.type = "WWWAuthenticateRealm"
        THEN [realm |-> v.realm, ok |-> TRUE]
        ELSE [realm |-> "", ok |-> FALSE]

\* func RealmFromRequest(r) (realm WWWAuthenticateRealm, ok bool)
RealmFromRequest(h, r) ==
    IF r.isNil THEN [realm |-> "", ok |-> FALSE]
    ELSE RealmFromCtx(h, r.ctx)

\* func AccessTokenFromCtx(ctx) (at AccessToken, ok bool)
AccessTokenFromCtx(h, c) ==
    LET v == Value(h, c, contextKeyAccessToken)
    IN  IF v.type = "AccessToken"
        THEN [at |-> v.at, ok |-> TRUE]
        ELSE [at |-> ZeroAccessToken, ok |-> FALSE]

\* func AccessTokenFromRequest(r) (at AccessToken, ok bool)
AccessTokenFromRequest(h, r) ==
    IF r.isNil THEN [at |-> ZeroAccessToken, ok |-> FALSE]
    ELSE AccessTokenFromCtx(h, r.ctx)

----------------------------------------------------------------------------
(* Identity context carrier: inputs *)

\* concurrent requests, each starting from the common parent context
Requests == {"r1", "r2"}

AccessTokens == {NewAccessToken("abcdef123", BearerTokenType),
                 NewAccessToken("zyx987", BearerTokenType),
                 NewAccessToken("", BearerTokenType)}

Realms == {"movies-realm", "logger-realm"}

NoRetrieval == [op |-> "none", arg |-> NilRequest, out |-> [ok |-> FALSE]]

----------------------------------------------------------------------------
(* State machine *)

Init ==
    /\ policy \in Policies
    /\ call = NoCall
    /\ ret = Nil
    /\ enforced = <<>>
    /\ logged = <<>>
    /\ ctxs = <<Background>>
    /\ reqs = [r \in Requests |-> Request(1)]
    /\ hist = << <<>> >>
    /\ res = NoRetrieval

\* one call of Authorize; call, ret, enforced and logged record it
DoAuthorize(sub, obj, act) ==
    LET out == Authorize(policy, sub, obj, act)
    IN  /\ ~call.made
        /\ call' = [made |-> TRUE, sub |-> sub, obj |-> obj, act |-> act]
        /\ ret' = out.err
        /\ enforced' = out.enforced
        /\ logged' = out.logged
        /\ UNCHANGED <<policy, ctxVars>>

\* the caller has consumed the result; the record of the call is cleared
Return ==
    /\ call.made
    /\ call' = NoCall
    /\ ret' = Nil
    /\ enforced' = <<>>
    /\ logged' = <<>>
    /\ UNCHANGED <<policy, ctxVars>>

\* request r attaches an access token to its context:
\* ctx = CtxWithAccessToken(ctx, at); r = r.WithContext(ctx)
AttachAccessToken(r, at) ==
    /\ res = NoRetrieval
    /\ Len(ctxs) < MaxCtxs
    /\ ctxs' = CtxWithAccessToken(ctxs, reqs[r].ctx, at)
    /\ reqs' = [reqs EXCEPT ![r] = Request(Len(ctxs'))]
    /\ hist' = Append(hist, Append(hist[reqs[r].ctx],
                                   [kind |-> "token", val |-> at, by |-> r]))
    /\ UNCHANGED <<res, authVars>>

\* request r attaches a realm to its context
AttachRealm(r, realm) ==
    /\ res = NoRetrieval
    /\ Len(ctxs) < MaxCtxs
    /\ ctxs' = CtxWithRealm(ctxs, reqs[r].ctx, realm)
    /\ reqs' = [reqs EXCEPT ![r] = Request(Len(ctxs'))]
    /\ hist' = Append(hist, Append(hist[reqs[r].ctx],
                                   [kind |-> "realm", val |-> realm, by |-> r]))
    /\ UNCHANGED <<res, authVars>>

GetAccessTokenFromRequest(rq) ==
    /\ res = NoRetrieval
    /\ res' = [op |-> "AccessTokenFromRequest", arg |-> rq,
               out |-> AccessTokenFromRequest(ctxs, rq)]
    /\ UNCHANGED <<ctxs, reqs, hist, authVars>>

GetAccessTokenFromCtx(c) ==
    /\ res = NoRetrieval
    /\ res' = [op |-> "AccessTokenFromCtx", arg |-> Request(c),
               out |-> AccessTokenFromCtx(ctxs, c)]
    /\ UNCHANGED <<ctxs, reqs, hist, authVars>>

GetRealmFromRequest(rq) ==
    /\ res = NoRetrieval
    /\ res' = [op |-> "RealmFromRequest", arg |-> rq,
               out |-> RealmFromRequest(ctxs, rq)]
    /\ UNCHANGED <<ctxs, reqs, hist, authVars>>

GetRealmFromCtx(c) ==
    /\ res = NoRetrieval
    /\ res' = [op |-> "RealmFromCtx", arg |-> Request(c),
               out |-> RealmFromCtx(ctxs, c)]
    /\ UNCHANGED <<ctxs, reqs, hist, authVars>>

\* the caller has consumed the values a retrieval returned; the record of the
\* retrieval is cleared
Consume ==
    /\ res # NoRetrieval
    /\ res' = NoRetrieval
    /\ UNCHANGED <<ctxs, reqs, hist, authVars>>

\* the requests a retrieval may be given: a live request or nil
RequestArgs == {reqs[r] : r \in Requests} \cup {NilRequest}

Next ==
    \/ \E sub \in Users, obj \in Paths, act \in Verbs : DoAuthorize(sub, obj, act)
    \/ Return

Spec == Init /\ [][Next]_vars

CtxNext ==
    \/ \E r \in Requests, at \in AccessTokens : AttachAccessToken(r, at)
    \/ \E r \in Requests, realm \in Realms : AttachRealm(r, realm)
    \/ \E rq \in RequestArgs : GetAccessTokenFromRequest(rq)
    \/ \E c \in DOMAIN ctxs : GetAccessTokenFromCtx(c)
    \/ \E rq \in RequestArgs : GetRealmFromRequest(rq)
    \/ \E c \in DOMAIN ctxs : GetRealmFromCtx(c)
    \/ Consume

\* the carrier never reads the enforcer: one policy set suffices
CtxInit == Init /\ policy = PolicyRBAC

CtxSpec == CtxInit /\ [][CtxNext]_vars

----------------------------------------------------------------------------
(* Properties of Authorize (checked under Spec) *)

\* s begins with p
StartsWith(s, p) == \E n \in 0..Len(s) : SubSeq(s, 1, n) = p

KnownPrefixes == {moviesPath, loggerPath}

MatchesKnownPrefix(obj) == \E p \in KnownPrefixes : StartsWith(obj, p)

\* the action the policy store is asked about for a verb
ActionFor(verb) == IF verb = "GET" THEN "read" ELSE "write"

\* C1: when the object path begins with none of the known prefixes,
\* Authorize returns an Unauthorized error and Enforce is not invoked
\* during the call.
C1_UnknownPrefixDeniedWithoutEnforce ==
    (call.made /\ ~MatchesKnownPrefix(call.obj)) =>
        /\ ret.kind = "Unauthorized"
        /\ enforced = <<>>

\* a call with a path one character short of /api/v1/movies, plus a suffix
C1_Witness ==
    /\ call.made
    /\ ~MatchesKnownPrefix(call.obj)
    /\ StartsWith(call.obj, nearMovies)
    /\ Len(call.obj) > Len(nearMovies)
    /\ ret.kind = "Unauthorized"

\* C2: Authorize returns nil or an error of kind Unauthorized, nothing else;
\* for a path matching a known prefix it returns nil exactly when Enforce
\* returned true for its query and Unauthorized exactly when it returned
\* false.
C2_TwoOutcomesFollowEnforce ==
    call.made =>
        /\ ret.kind \in {"nil", "Unauthorized"}
        /\ MatchesKnownPrefix(call.obj) =>
              /\ Len(enforced) = 1
              /\ (ret.kind = "nil") <=> enforced[1].result
              /\ (ret.kind = "Unauthorized") <=> ~enforced[1].result
              /\ enforced[1].result <=> (enforced[1].query \in policy)

\* both outcomes occur under the role-based policy: a write denied
C2_Witness ==
    /\ call.made
    /\ policy = PolicyRBAC
    /\ call.sub.Email = "alice@example.com"
    /\ call.obj = moviesPath
    /\ call.act = "POST"
    /\ ret.kind = "Unauthorized"
    /\ Len(enforced) = 1

\* C3: every query Authorize sends to the policy store is (sub.Email,
\* canonical object, canonical action): the object is the known prefix the
\* path starts with, not the path, and the action is "read" for GET and
\* "write" for every other verb.
C3_QueryIsCanonical ==
    \A i \in DOMAIN enforced :
        LET q == enforced[i].query
        IN  /\ call.made
            /\ q[1] = call.sub.Email
            /\ q[2] \in KnownPrefixes
            /\ StartsWith(call.obj, q[2])
            /\ (StartsWith(call.obj, moviesPath) => q[2] = moviesPath)
            /\ q[3] = ActionFor(call.act)

\* a longer path under /api/v1/movies with a verb other than GET is queried
\* as (/api/v1/movies, write)
C3_Witness ==
    /\ call.made
    /\ Len(call.obj) > Len(moviesPath)
    /\ StartsWith(call.obj, moviesPath)
    /\ call.act = "DELETE"
    /\ Len(enforced) = 1
    /\ enforced[1].query = <<call.sub.Email, moviesPath, "write">>

\* C9 (as claimed): every Unauthorized error returned by Authorize carries a
\* message naming the subject, the canonical object and the canonical
\* action, on a policy-store deny and on an unknown-prefix failure alike.
C9_MsgAlwaysCanonical ==
    (call.made /\ ret.kind = "Unauthorized") =>
        /\ ret.msg[2] = call.sub.Email
        /\ ret.msg[4] = ActionFor(call.act)
        /\ ret.msg[6] \in KnownPrefixes

\* C9 (amended): on a policy-store deny the message names the subject, the
\* canonical object and the canonical action; on an unknown-prefix failure
\* it names the subject, the verb as received and the path as received.
C9_MsgCanonicalOnStoreDenyRawOnUnknownPrefix ==
    (call.made /\ ret.kind = "Unauthorized") =>
        /\ ret.msg[1] = "user "
        /\ ret.msg[2] = call.sub.Email
        /\ MatchesKnownPrefix(call.obj) =>
              /\ ret.msg[4] = ActionFor(call.act)
              /\ ret.msg[6] \in KnownPrefixes
              /\ StartsWith(call.obj, ret.msg[6])
        /\ ~MatchesKnownPrefix(call.obj) =>
              /\ ret.msg[4] = call.act
              /\ ret.msg[6] = call.obj

\* a store deny of a PUT on a longer logger path: the message says write and
\* /api/v1/logger
C9_Witness ==
    /\ call.made
    /\ ret.kind = "Unauthorized"
    /\ call.act = "PUT"
    /\ StartsWith(call.obj, loggerPath)
    /\ call.obj # loggerPath
    /\ ret.msg[4] = "write"
    /\ ret.msg[6] = loggerPath

\* C10: every Authorize call emits exactly one log entry before it returns:
\* a debug entry with subject, object and action when it returns nil, an
\* info entry with the same fields when it returns Unauthorized, the
\* unknown-prefix case included.
C10_OneAuditEntryPerCall ==
    call.made =>
        /\ Len(logged) = 1
        /\ logged[1].sub = call.sub.Email
        /\ logged[1].act = ActionFor(call.act)
        /\ (ret.kind = "nil") => logged[1].level = "debug"
        /\ (ret.kind = "Unauthorized") => logged[1].level = "info"

----------------------------------------------------------------------------
(* Properties of the identity context carrier (checked under CtxSpec) *)

Max(S) == CHOOSE x \in S : \A y \in S : y <= x

\* positions of the attach operations of a kind in a context's history
OpsOfKind(ops, kind) == {i \in DOMAIN ops : ops[i].kind = kind}

\* the attach history of the argument of a retrieval (none for a nil request)
HistOf(arg) == IF arg.isNil THEN <<>> ELSE hist[arg.ctx]

AccessTokenOps == {"AccessTokenFromRequest", "AccessTokenFromCtx"}
RealmOps == {"RealmFromRequest", "RealmFromCtx"}

\* C4: on a context built by any sequence of CtxWithAccessToken and
\* CtxWithRealm, AccessTokenFromCtx returns ok = true and exactly the
\* AccessToken of the most recent CtxWithAccessToken of the chain, whatever
\* realms were attached before or after it.
C4_RetrieveReturnsMostRecentToken ==
    /\ \A c \in DOMAIN ctxs :
          LET toks == OpsOfKind(hist[c], "token")
          IN  toks # {} =>
                 AccessTokenFromCtx(ctxs, c) =
                     [at |-> hist[c][Max(toks)].val, ok |-> TRUE]
    /\ res.op \in AccessTokenOps =>
          LET toks == OpsOfKind(HistOf(res.arg), "token")
          IN  toks # {} =>
                 res.out = [at |-> HistOf(res.arg)[Max(toks)].val, ok |-> TRUE]

\* a retrieval from a chain token, token, realm returned the second token
C4_Witness ==
    /\ res.op = "AccessTokenFromCtx"
    /\ Len(HistOf(res.arg)) = 3
    /\ HistOf(res.arg)[1].kind = "token"
    /\ HistOf(res.arg)[2].kind = "token"
    /\ HistOf(res.arg)[3].kind = "realm"
    /\ HistOf(res.arg)[1].val # HistOf(res.arg)[2].val
    /\ res.out.ok
    /\ res.out.at = HistOf(res.arg)[2].val

\* C5: retrieving an AccessToken from a request or context to which none
\* was attached fails with an error of kind Unauthenticated and yields the
\* zero AccessToken.
C5_AbsentTokenFailsUnauthenticated ==
    (res.op \in AccessTokenOps /\ OpsOfKind(HistOf(res.arg), "token") = {}) =>
        /\ res.out.at = ZeroAccessToken
        /\ "err" \in DOMAIN res.out
        /\ res.out.err.kind = "Unauthenticated"

\* C6: an AccessToken attached with an empty token string is never reported
\* as retrieved successfully: AccessTokenFromRequest signals a failure and
\* still returns the attached value.
C6_EmptyTokenIsNotSuccess ==
    LET toks == OpsOfKind(HistOf(res.arg), "token")
    IN  (/\ res.op = "AccessTokenFromRequest"
         /\ toks # {}
         /\ HistOf(res.arg)[Max(toks)].val.Token = "") =>
            /\ res.out.at = HistOf(res.arg)[Max(toks)].val
            /\ ~res.out.ok

\* C7 (as claimed): realm retrieval from a request or context with no realm
\* attached, a nil request included, returns DefaultRealm, never a failure
\* or an empty realm.
C7_AbsentRealmIsDefaultRealm ==
    (res.op \in RealmOps /\ OpsOfKind(HistOf(res.arg), "realm") = {}) =>
        /\ res.out.realm = DefaultRealm
        /\ res.out.ok

\* C7 (amended): realm retrieval from a request or context with no realm
\* attached, a nil request included, returns the empty realm and ok = false;
\* DefaultRealm is not substituted.
C7_AbsentRealmIsEmptyNotOk ==
    (res.op \in RealmOps /\ OpsOfKind(HistOf(res.arg), "realm") = {}) =>
        res.out = [realm |-> "", ok |-> FALSE]

\* RealmFromCtx on a context that carries a token but no realm
C7_Witness ==
    /\ res.op = "RealmFromCtx"
    /\ OpsOfKind(HistOf(res.arg), "realm") = {}
    /\ OpsOfKind(HistOf(res.arg), "token") # {}
    /\ ~res.out.ok

\* C8: attaching never changes its input: whatever step is taken, every
\* existing context yields the same access token and the same realm as
\* before, so does every request whose context was not replaced, and the
\* token a request retrieves is one that this request attached.
C8_AttachDoesNotMutate ==
    [][ /\ \A c \in DOMAIN ctxs :
              /\ AccessTokenFromCtx(ctxs', c) = AccessTokenFromCtx(ctxs, c)
              /\ RealmFromCtx(ctxs', c) = RealmFromCtx(ctxs, c)
        /\ \A r \in Requests :
              /\ reqs'[r] = reqs[r] =>
                    /\ AccessTokenFromRequest(ctxs', reqs'[r])
                          = AccessTokenFromRequest(ctxs, reqs[r])
                    /\ RealmFromRequest(ctxs', reqs'[r])
                          = RealmFromRequest(ctxs, reqs[r])
              /\ LET o == AccessTokenFromRequest(ctxs', reqs'[r])
                     ops == hist'[reqs'[r].ctx]
                 IN  o.ok => \E i \in DOMAIN ops :
                                 /\ ops[i].kind = "token"
                                 /\ ops[i].by = r
                                 /\ ops[i].val = o.at
      ]_vars

\* a context was retrieved from after a different token had been attached on
\* top of it, while another request had attached a token of its own
C8_Witness ==
    /\ res.op = "AccessTokenFromCtx"
    /\ res.out.ok
    /\ \E c \in DOMAIN ctxs :
          /\ ctxs[c].parent = res.arg.ctx
          /\ ctxs[c].key = contextKeyAccessToken
          /\ ctxs[c].val.at # res.out.at
    /\ \E r \in Requests :
          /\ reqs[r].ctx # res.arg.ctx
          /\ ctxs[reqs[r].ctx].parent = 1
          /\ ctxs[reqs[r].ctx].key = contextKeyAccessToken
          /\ ctxs[reqs[r].ctx].val.at # res.out.at

============================================================================
